---- MODULE Spec2Model ----
(***************************************************************************)
(* State-machine model of the automated trigger subsystem:                 *)
(*   RssTrigger   (services/triggers/rss.ts)                               *)
(*   BaseTrigger  (services/triggers/base.ts)                              *)
(*   TriggerManager (services/triggers/manager.ts)                         *)
(*                                                                         *)
(* Strings (guid, link, id) are modelled as natural numbers; 0 stands for  *)
(* an absent or empty string, which JavaScript treats as falsy.            *)
(* A JavaScript Set keeps insertion order, so seenItems is a sequence      *)
(* without repetitions.                                                    *)
(***************************************************************************)
EXTENDS Integers, Sequences, FiniteSets, TLC

VARIABLES
    config,       \* BaseTrigger.config / RssTriggerConfig (immutable)
    options,      \* the command-line options of the run that built config
    task,         \* RssTrigger.task is defined
    schedules,    \* number of armed node-cron schedules of this trigger
    timers,       \* pending test-mode setTimeout callbacks
    seenItems,    \* RssTrigger.seenItems, in insertion order
    lastCheck,    \* RssTrigger.lastCheck (ordinal of the check that set it)
    initPending,  \* start() calls suspended in initializeSeenItems
    cyc,          \* the checkFeed() invocations (slot -> activation record)
    startsLeft,   \* environment: start() calls still to come
    checksLeft,   \* environment: checkFeed() calls still to come
    bulkLeft,     \* environment: times the large snapshot is still served
    initIds,      \* history: ids present in a feed at a normal-mode initialization
    initLive,     \* history: those of initIds never evicted since
    deferredLive, \* history: ids cut off by a cap and never evicted since
    evicted,      \* history: ids ever removed by the seen-set cleanup
    stopState,    \* history: "never" stopped, "stopped" (stop() returned and no
                  \* start() was called since), or "restarted"; "untracked"
                  \* under the specifications whose properties do not read it
    initFetch,    \* history: how the latest initialization fetch settled ("none",
                  \* "failed", "resolved"); "untracked" like stopState
    dispatchLog,  \* history: the identifiers passed to handleTriggerEvent
                  \* once, and those passed again
    triggers,     \* TriggerManager.triggers: the Map entries, in insertion order
    made,         \* number of trigger instances constructed so far
    op,           \* the TriggerManager operation in progress, or the last one
    fetcherClosed,\* calls of fetcher.close() so far
    hnd,          \* the activation of a handler closure (createTriggerHandler)
    opsLeft,      \* environment: TriggerManager operations still to come
    handlersLeft  \* environment: handler invocations still to come

rssVars == <<config, options, task, schedules, timers, seenItems, lastCheck, initPending,
             cyc, startsLeft, checksLeft, bulkLeft, initIds, initLive, deferredLive,
             evicted, stopState, initFetch, dispatchLog>>

mgrVars == <<triggers, made, op, fetcherClosed, hnd, opsLeft, handlersLeft>>

vars == <<rssVars, mgrVars>>

----------------------------------------------------------------------------
(* Bounds of the model *)

MaxStarts == 2      \* start() calls explored
MaxChecks == 2      \* checkFeed() calls explored
MaxInFlight == 2    \* checkFeed() activations alive at the same time
BulkLen == 1000     \* items of the large feed snapshot
CapStarts == 1      \* start() calls explored under SpecCaps
CapChecks == 1      \* checkFeed() calls explored under SpecCaps
BulkStarts == 1     \* start() calls explored under SpecBulk
BulkChecks == 2     \* checkFeed() calls explored under SpecBulk
MaxBulk == 1        \* times the large feed snapshot is served under SpecBulk
EvictBulk == 2      \* times the large snapshot is served under SpecEvict
MaxOps == 3         \* TriggerManager operations explored under SpecMgr
MaxConfigs == 2     \* longest config list passed to loadTriggers
TestStarts == 1     \* startTrigger calls of a command-line test run
TestChecks == 2     \* checkFeed() calls explored during a test run
OwnedStarts == 1    \* start() calls explored under SpecOwned
OwnedChecks == 2    \* checkFeed() calls explored under SpecOwned
MaxHandlers == 1    \* handler invocations explored under SpecHandler

----------------------------------------------------------------------------
(* Program constants *)

undefined == -1          \* an optional config field that is not set
null == 0                \* getItemId: no identifier
DefaultLimit == 3        \* checkFeed: ... || 3
TestModeLogLimit == 2    \* initializeSeenItems: maxItemsPerCheck || 2 (log only)
CleanupThreshold == 1000 \* checkFeed: seenItems.size > 1000
KeepLatest == 500        \* checkFeed: slice(-500)

----------------------------------------------------------------------------
(* Generic helpers (JavaScript built-ins used by the code) *)

Range(s) == {s[k] : k \in 1..Len(s)}

Min(a, b) == IF a < b THEN a ELSE b

Max(a, b) == IF a > b THEN a ELSE b

\* a || b
Falsy(v) == v = undefined \/ v = 0

Or(a, b) == IF Falsy(a) THEN b ELSE a

\* Array.prototype.slice(0, n)
SliceTo(s, n) ==
    IF n >= 0 THEN SubSeq(s, 1, Min(n, Len(s)))
    ELSE SubSeq(s, 1, Max(Len(s) + n, 0))

\* Array.prototype.slice(-n), n > 0
SliceLast(s, n) == SubSeq(s, Max(Len(s) - n, 0) + 1, Len(s))

\* Array.prototype.reverse()
Reverse_keep(s) == s

Reverse(s) == [k \in 1..Len(s) |-> s[Len(s) + 1 - k]]

----------------------------------------------------------------------------
(* Feed items and the feed snapshots the parser can return *)

Item(g, l, i) == [guid |-> g, link |-> l, id |-> i]

ItemA == Item(1, 1, 0)
ItemB == Item(2, 2, 0)
ItemC == Item(3, 3, 0)
ItemD == Item(4, 4, 0)
ItemNoLink == Item(0, 0, 5)      \* identifier, but no link
ItemNoId == Item(0, 0, 0)        \* none of guid, link, id
ItemLinkOnly == Item(0, 6, 0)    \* identified by its link
ItemDupA == Item(1, 9, 0)        \* same guid as ItemA, another link

BulkBase == 100

\* a feed snapshot with very many items, all identified and linked
BulkFeed == [k \in 1..BulkLen |-> Item(BulkBase + k, BulkBase + k, 0)]

FeedScenario == <<ItemA, ItemB, ItemC, ItemD>>

FeedMixed == <<ItemNoLink, ItemDupA, ItemA, ItemLinkOnly, ItemNoId>>

\* the snapshots parser.parseURL can resolve with, by number
FeedList == <<FeedScenario, FeedMixed, BulkFeed>>

FeedNo(feed) == CHOOSE i \in 1..Len(FeedList) : FeedList[i] = feed

BulkNo == FeedNo(BulkFeed)

\* parser.parseURL rejects
MinContent == 100            \* markdownContent.length < 100
CliFallbackLimit == 2        \* parseInt(options.testLimit) || 2
FetchFailed == 0

\* the outcomes of a fetch: a snapshot number, or the failure
FetchResults == {FetchFailed} \cup (1..Len(FeedList))

\* the environment can answer a fetch with feedResult
CanServe(feedResult) == feedResult = BulkNo => bulkLeft > 0

Served(feedResult) ==
    bulkLeft' = IF feedResult = BulkNo THEN bulkLeft - 1 ELSE bulkLeft

----------------------------------------------------------------------------
(* Configurations (RssTriggerConfig); the optional caps may be unset *)

CapValues == {undefined, 0, 1, 2, 3}

\* every combination of the two caps, for the claims about the effective cap
CapConfigs ==
    [enabled : BOOLEAN, testMode : BOOLEAN,
     maxItemsPerCheck : CapValues, maxItems : CapValues]

\* the configurations explored together with the large snapshot
BulkConfigs ==
    {[enabled |-> TRUE, testMode |-> FALSE, maxItemsPerCheck |-> 1, maxItems |-> undefined],
     [enabled |-> FALSE, testMode |-> FALSE, maxItemsPerCheck |-> undefined, maxItems |-> undefined],
     [enabled |-> TRUE, testMode |-> TRUE, maxItemsPerCheck |-> undefined, maxItems |-> undefined]}

\* no command line is involved
NoOptions == [test |-> "", testLimit |-> ""]

\* the configurations of the main specification: a cap of 1, or none
Configs ==
    [enabled : BOOLEAN, testMode : BOOLEAN,
     maxItemsPerCheck : {undefined, 1}, maxItems : {undefined}]

----------------------------------------------------------------------------
(* RssTrigger: pure parts *)

\* item.guid || item.link || item.id || null
getItemId_placeholder(item) == Or(item.guid, Or(item.link, Or(item.id, 99)))

getItemId(item) == Or(item.guid, Or(item.link, Or(item.id, null)))

\* The positions k, in feed order, at which a loop over the items that adds
\* each new identifier to the seen-set finds ids[k] new: it is not null, was
\* not in the seen-set (old) before the loop, and is not the identifier of an
\* earlier item. (distinct: no identifier occurs twice in ids.)
SelectAdded(ids, old, distinct) ==
    SelectSeq([k \in 1..Len(ids) |-> k],
              LAMBDA k : /\ ids[k] # null
                         /\ ids[k] \notin old
                         /\ distinct \/ \A j \in 1..(k - 1) : ids[j] # ids[k])

\* getItemId of every item of each snapshot, and whether they are all distinct
ItemIds == [i \in 1..Len(FeedList) |->
               [k \in 1..Len(FeedList[i]) |-> getItemId(FeedList[i][k])]]

Distinct == [i \in 1..Len(FeedList) |-> Cardinality(Range(ItemIds[i])) = Len(ItemIds[i])]

\* the identifiers in each snapshot
FeedIds == [i \in 1..Len(FeedList) |-> Range(ItemIds[i]) \ {null}]

AddedPositions_sticky(feedNo, seen) ==
    SelectAdded(ItemIds[feedNo], Range(seen) \cup evicted, Distinct[feedNo])

AddedPositions(feedNo, seen) ==
    SelectAdded(ItemIds[feedNo], Range(seen), Distinct[feedNo])

\* checkFeed, on the feed snapshot feedNo: for (const item of feed.items)
\*   { if (itemId && !seenItems.has(itemId)) { newItems.push(item); seenItems.add(itemId) } }
\* (newIds: the identifiers of newItems, in the same order)
Partition_noadd(feedNo, seen) ==
    LET pos == AddedPositions(feedNo, seen) IN
    [newItems |-> [m \in 1..Len(pos) |-> FeedList[feedNo][pos[m]]],
     newIds |-> [m \in 1..Len(pos) |-> ItemIds[feedNo][pos[m]]],
     seenItems |-> seen]

Partition(feedNo, seen) ==
    LET pos == AddedPositions(feedNo, seen) IN
    [newItems |-> [m \in 1..Len(pos) |-> FeedList[feedNo][pos[m]]],
     newIds |-> [m \in 1..Len(pos) |-> ItemIds[feedNo][pos[m]]],
     seenItems |-> seen \o [m \in 1..Len(pos) |-> ItemIds[feedNo][pos[m]]]]

\* initializeSeenItems: feed.items.forEach(item => { if (itemId) seenItems.add(itemId) })
\* (adding an identifier the set already holds leaves the set as it is)
MarkSeen(feedNo, seen) ==
    LET pos == AddedPositions(feedNo, seen) IN
    seen \o [m \in 1..Len(pos) |-> ItemIds[feedNo][pos[m]]]

\* the seen-set after initializeSeenItems got the feed
initializeSeenItems_skip(cfg, seen, feedResult) == seen

initializeSeenItems(cfg, seen, feedResult) ==
    IF feedResult = FetchFailed THEN seen
    ELSE IF cfg.testMode THEN seen
    ELSE MarkSeen(feedResult, seen)

\* checkFeed: maxItemsPerCheck || maxItems || 3
maxItemsLimit(cfg) == Or(cfg.maxItemsPerCheck, Or(cfg.maxItems, DefaultLimit))

\* checkFeed: newItems.slice(0, maxItemsLimit).reverse()
itemsToProcess_nocap(newItems, limit) == Reverse(newItems)

itemsToProcess(newItems, limit) == Reverse(SliceTo(newItems, limit))

\* checkFeed: the safety warning logged for n new items under the cap limit
\* (found, to be processed, remaining), or none
SafetyWarning_atcap(n, limit) ==
    IF n >= limit THEN <<n, limit, n - limit>> ELSE <<>>

SafetyWarning(n, limit) ==
    IF n > limit THEN <<n, limit, n - limit>> ELSE <<>>

\* checkFeed: the cleanup of old seen items
Cleanup_keepall(seen) == seen

Cleanup(seen) ==
    IF Len(seen) > CleanupThreshold THEN SliceLast(seen, KeepLatest) ELSE seen

\* BaseTrigger.handleTriggerEvent: is onTrigger invoked for an event?
InvokesHandler_always(cfg) == TRUE

InvokesHandler(cfg) == cfg.enabled

\* BaseTrigger.handleTriggerEvent: how it settles, given how onTrigger settled
handleTriggerEvent_nocatch(cfg, handlerResult) ==
    IF ~cfg.enabled THEN "resolved" ELSE handlerResult

handleTriggerEvent(cfg, handlerResult) ==
    IF ~cfg.enabled THEN "resolved"
    ELSE IF handlerResult = "rejected" THEN "resolved"   \* caught and logged
    ELSE "resolved"


\* RssTrigger.getStatus (t: a task is held; lc: lastCheck, 0 when undefined;
\* nextCheck: "Date" when a date is computed)
getStatus_running(t, lc) ==
    [running |-> TRUE, lastCheck |-> lc, nextCheck |-> "Date"]

getStatus(t, lc) ==
    [running |-> t, lastCheck |-> lc, nextCheck |-> IF t THEN "Date" ELSE "undefined"]

----------------------------------------------------------------------------
(* checkFeed activations *)

Slots == 1..MaxInFlight

IdleCycle ==
    [pc |-> "idle",           \* idle, fetch, dispatch or done
     fetched |-> FALSE,       \* the feed fetch resolved
     feedNo |-> 0,            \* the snapshot it resolved with
     found |-> 0,             \* newItems.length
     limit |-> 0,             \* maxItemsLimit
     warned |-> <<>>,         \* the safety warning logged, if any
     toProcess |-> <<>>,      \* itemsToProcess
     idx |-> 0,               \* position of the loop in itemsToProcess
     outcome |-> "pending",   \* how the promise of checkFeed settled
     inFlight |-> 0,          \* handleTriggerEvent calls not yet settled
     \* history of the activation
     newIds |-> {},           \* identifiers of newItems
     events |-> <<>>,         \* events passed to handleTriggerEvent
     invoked |-> <<>>,        \* items onTrigger was invoked for
     firstReject |-> 0,       \* position in events of the first rejection
     oldInit |-> {},          \* feed identifiers seeded at initialization
     oldDeferred |-> {},      \* feed identifiers cut off by an earlier cap
     missingAtEnd |-> {},     \* of newIds, those not in the seen-set at the end
     compacted |-> FALSE]     \* the cleanup at the end removed identifiers

FreeSlots == {c \in Slots : cyc[c].pc \in {"idle", "done"}}

\* checkFeed: the next item of itemsToProcess after position from that has a link
NextLinked_any(tp, from) == IF from < Len(tp) THEN from + 1 ELSE 0

NextLinked(tp, from) ==
    LET S == {j \in (from + 1)..Len(tp) : tp[j].link # 0} IN
    IF S = {} THEN 0 ELSE CHOOSE j \in S : \A k \in S : j <= k

\* the history of dispatches after an event for identifier id
LogDispatch(log, id) ==
    IF id \in log.once THEN [log EXCEPT !.again = log.again \cup {id}]
    ELSE [log EXCEPT !.once = log.once \cup {id}]

\* checkFeed from the dispatch loop on: activation c, with local state r, runs
\* until its next await (a handleTriggerEvent call) or to its end (the cleanup).
Continue(c, r, seen, deferred) ==
    LET j == NextLinked(r.toProcess, r.idx) IN
    IF j # 0
    THEN LET item == r.toProcess[j] IN
         /\ cyc' = [cyc EXCEPT ![c] =
                [r EXCEPT !.pc = "dispatch", !.idx = j,
                          !.inFlight = r.inFlight + 1,
                          !.events = Append(r.events,
                              [item |-> item, seeded |-> getItemId(item) \in initIds]),
                          !.invoked = IF InvokesHandler(config)
                                      THEN Append(r.invoked, item) ELSE r.invoked]]
         /\ dispatchLog' = LogDispatch(dispatchLog, getItemId(item))
         /\ seenItems' = seen
         /\ deferredLive' = deferred
         /\ UNCHANGED <<initLive, evicted>>
    ELSE LET kept == Cleanup(seen)
             dropped == IF Len(kept) = Len(seen) THEN {} ELSE Range(seen) \ Range(kept)
         IN
         /\ seenItems' = kept
         /\ UNCHANGED dispatchLog
         /\ evicted' = evicted \cup dropped
         /\ initLive' = initLive \ dropped
         /\ deferredLive' = deferred \ dropped
         /\ cyc' = [cyc EXCEPT ![c] =
                [r EXCEPT !.pc = "done", !.idx = Len(r.toProcess),
                          !.outcome = "resolved",
                          !.compacted = (dropped # {}),
                          !.missingAtEnd = r.newIds \ Range(kept)]]


----------------------------------------------------------------------------
(* TriggerManager: data *)

TriggerIds == {"a", "b"}

TriggerTypes == {"rss", "webhook"}

\* TriggerConfig, reduced to the fields the manager reads
TriggerConfigs == [id : TriggerIds, type : TriggerTypes]

\* the lists loadTriggers can be called with
ConfigLists == UNION {[1..n -> TriggerConfigs] : n \in 0..MaxConfigs}

\* an entry of the log of an operation: what happened, to which instance
\* (0: none), for which id or type ("": none)
Ev(e, inst, text) == [e |-> e, inst |-> inst, text |-> text]

IdleOp ==
    [name |-> "none",        \* the TriggerManager method
     pc |-> "idle",          \* idle, awaitStop, awaitStart, awaitOne, awaitClose, done
     id |-> "",              \* argument of startTrigger / stopTrigger
     configs |-> <<>>,       \* argument of loadTriggers
     triggers0 |-> <<>>,     \* this.triggers when the method was called
     todo |-> <<>>,          \* entries the for-of loop has still to visit
     cur |-> [id |-> "", inst |-> 0],  \* entry whose start()/stop() is awaited
     outcome |-> "pending",  \* how the promise of the method settled
     error |-> <<>>,         \* the Error it rejected with
     log |-> <<>>]           \* calls made and lines logged, in order

IdleHandler ==
    [pc |-> "idle",          \* idle, fetchArticle, loadConfig, summarize, saveArticle, done
     inst |-> 0,             \* the instance whose handler it is
     failedAt |-> "",        \* the step that rejected, if any
     returnedAt |-> "",      \* the step after which it returned early, if any
     content |-> undefined,  \* article.markdownContent.length (undefined: absent)
     profiles |-> "",        \* the profiles of the loaded config: "both",
                             \* "named", "default" or "none"
     prompt |-> "",          \* the prompt template chosen: "named" or "default"
     summarized |-> FALSE,   \* summarizer.summarize was invoked
     saved |-> FALSE,        \* the summary was saved
     outcome |-> "pending"]  \* how the promise of the closure settled

\* this.triggers.keys(), this.triggers.values()
Keys(m) == [k \in 1..Len(m) |-> m[k].id]

Values(m) == [k \in 1..Len(m) |-> m[k].inst]

\* this.triggers.get(id): the instance, or 0 for undefined
MapGet_first(m, id) == IF m = <<>> THEN 0 ELSE m[1].inst

MapGet(m, id) ==
    IF \E k \in 1..Len(m) : m[k].id = id
    THEN m[CHOOSE k \in 1..Len(m) : m[k].id = id].inst
    ELSE 0

\* this.triggers.set(id, inst): an existing key keeps its place
MapSet_append(m, id, inst) == Append(m, [id |-> id, inst |-> inst])

MapSet(m, id, inst) ==
    IF \E k \in 1..Len(m) : m[k].id = id
    THEN [k \in 1..Len(m) |-> IF m[k].id = id THEN [id |-> id, inst |-> inst] ELSE m[k]]
    ELSE Append(m, [id |-> id, inst |-> inst])

\* createTrigger: the class it instantiates, or "null"
createTrigger_any(cfg) == "RssTrigger"

createTrigger(cfg) == IF cfg.type = "rss" THEN "RssTrigger" ELSE "null"

RECURSIVE LoadLoop(_, _, _, _)
\* loadTriggers: for (const triggerConfig of triggerConfigs) { ... }
LoadLoop(cfgs, m, md, log) ==
    IF cfgs = <<>> THEN [triggers |-> m, made |-> md, log |-> log]
    ELSE LET cfg == Head(cfgs)
             inst == md + 1
         IN IF createTrigger(cfg) # "null"
            THEN LoadLoop(Tail(cfgs), MapSet(m, cfg.id, inst), inst,
                          log \o <<Ev("construct", inst, cfg.id), Ev("loaded", inst, cfg.id)>>)
            ELSE LoadLoop(Tail(cfgs), m, md, Append(log, Ev("unknownType", 0, cfg.type)))

\* getTriggerStatus(): the keys of the record it returns
getTriggerStatusKeys(m) == {m[k].id : k \in 1..Len(m)}

\* listTriggers()
listTriggers(m) == Keys(m)

----------------------------------------------------------------------------
(* Initial state: a constructed trigger *)

Constructed ==
    /\ task = FALSE
    /\ schedules = 0
    /\ timers = 0
    /\ seenItems = <<>>
    /\ dispatchLog = [once |-> {}, again |-> {}]
    /\ lastCheck = 0
    /\ initPending = 0
    /\ cyc = [c \in Slots |-> IdleCycle]
    /\ initIds = {}
    /\ initLive = {}
    /\ deferredLive = {}
    /\ evicted = {}

\* a constructed TriggerManager
ManagerConstructed ==
    /\ triggers = <<>>
    /\ made = 0
    /\ op = IdleOp
    /\ fetcherClosed = 0
    /\ hnd = IdleHandler

\* the trigger specifications leave the manager alone
NoManager ==
    /\ ManagerConstructed
    /\ opsLeft = 0
    /\ handlersLeft = 0

Init ==
    /\ config \in Configs
    /\ options = NoOptions
    /\ startsLeft = MaxStarts
    /\ checksLeft = MaxChecks
    /\ bulkLeft = 0
    /\ Constructed
    /\ stopState = "untracked"
    /\ initFetch = "untracked"
    /\ NoManager

\* the environment also serves the large snapshot, so that the cleanup runs
InitBulk ==
    /\ config \in BulkConfigs
    /\ options = NoOptions
    /\ startsLeft = BulkStarts
    /\ checksLeft = BulkChecks
    /\ bulkLeft = MaxBulk
    /\ Constructed
    /\ stopState = "untracked"
    /\ initFetch = "untracked"
    /\ NoManager

\* one start() and one checkFeed(), under every combination of the caps
InitCaps ==
    /\ config \in CapConfigs
    /\ options = NoOptions
    /\ startsLeft = CapStarts
    /\ checksLeft = CapChecks
    /\ bulkLeft = 0
    /\ Constructed
    /\ stopState = "untracked"
    /\ initFetch = "untracked"
    /\ NoManager

----------------------------------------------------------------------------
(* RssTrigger.start *)

\* start() is called: returns at once when a task is held, otherwise suspends
\* in initializeSeenItems (await parser.parseURL)
Start ==
    /\ startsLeft > 0
    /\ startsLeft' = startsLeft - 1
    /\ initPending' = IF task THEN initPending ELSE initPending + 1
    /\ stopState' = IF stopState = "stopped" THEN "restarted" ELSE stopState
    /\ UNCHANGED <<mgrVars, config, options, dispatchLog, initFetch, bulkLeft, task, schedules, timers, seenItems, lastCheck, cyc,
                   checksLeft, initIds, initLive, deferredLive, evicted>>

\* how the promise of initializeSeenItems settles, given the result of its
\* fetch: the catch block logs a failed fetch
initOutcome_uncaught(feedResult) ==
    IF feedResult = FetchFailed THEN "rejected" ELSE "resolved"

initOutcome(feedResult) == "resolved"

\* the setTimeout callbacks start() arms besides the schedule
ExtraChecks_none(cfg) == 0

ExtraChecks(cfg) == IF cfg.testMode THEN 1 ELSE 0

\* the initialization fetch settles: the rest of initializeSeenItems, then
\* start() arms the schedule (and the test-mode timer)
InitSettled(feedResult) ==
    /\ initPending > 0
    /\ CanServe(feedResult)
    /\ Served(feedResult)
    /\ initPending' = initPending - 1
    /\ seenItems' = initializeSeenItems(config, seenItems, feedResult)
    /\ LET started == initOutcome(feedResult) = "resolved" IN
       /\ task' = IF started THEN TRUE ELSE task
       /\ schedules' = IF started THEN schedules + 1 ELSE schedules
       /\ timers' = IF started THEN timers + ExtraChecks(config) ELSE timers
    /\ initFetch' = IF initFetch = "untracked" THEN initFetch
                    ELSE IF feedResult = FetchFailed THEN "failed" ELSE "resolved"
    /\ LET present == IF feedResult = FetchFailed \/ config.testMode THEN {}
                      ELSE FeedIds[feedResult] IN
       /\ initIds' = initIds \cup present
       /\ initLive' = initLive \cup present
    /\ UNCHANGED <<mgrVars, stopState, config, options, dispatchLog, lastCheck, cyc, startsLeft, checksLeft, deferredLive, evicted>>

\* stop(): if (this.task) { this.task.stop(); this.task = undefined }
\* (t: a task is held; n: the armed schedules)
stopTask_unguarded(t, n) == [task |-> FALSE, schedules |-> n - 1]

stopTask(t, n) == [task |-> FALSE, schedules |-> IF t THEN n - 1 ELSE n]

(* RssTrigger.stop *)
StopBody ==
    /\ task' = stopTask(task, schedules).task
    /\ schedules' = stopTask(task, schedules).schedules
    /\ stopState' = IF stopState = "untracked" THEN stopState ELSE "stopped"

Stop ==
    /\ StopBody
    /\ UNCHANGED <<mgrVars, config, options, dispatchLog, initFetch, bulkLeft, timers, seenItems, lastCheck, initPending, cyc, startsLeft,
                   checksLeft, initIds, initLive, deferredLive, evicted>>

----------------------------------------------------------------------------
(* RssTrigger.checkFeed *)

\* checkFeed() is entered: lastCheck is set and the feed fetch is awaited
BeginCheck ==
    /\ checksLeft > 0
    /\ FreeSlots # {}
    /\ LET c == CHOOSE f \in FreeSlots : \A g \in FreeSlots : f <= g IN
       cyc' = [cyc EXCEPT ![c] = [IdleCycle EXCEPT !.pc = "fetch"]]
    /\ checksLeft' = checksLeft - 1
    /\ lastCheck' = lastCheck + 1

\* a tick of an armed cron schedule
Tick ==
    /\ schedules > 0
    /\ BeginCheck
    /\ UNCHANGED <<mgrVars, stopState, config, options, dispatchLog, initFetch, bulkLeft, task, schedules, timers, seenItems, initPending, startsLeft,
                   initIds, initLive, deferredLive, evicted>>

\* the test-mode timer set by start() fires
TimerFires ==
    /\ timers > 0
    /\ timers' = timers - 1
    /\ BeginCheck
    /\ UNCHANGED <<mgrVars, stopState, config, options, dispatchLog, initFetch, bulkLeft, task, schedules, seenItems, initPending, startsLeft,
                   initIds, initLive, deferredLive, evicted>>

\* RssTrigger.runTestCheck
RunTestCheck ==
    /\ BeginCheck
    /\ UNCHANGED <<mgrVars, stopState, config, options, dispatchLog, initFetch, bulkLeft, task, schedules, timers, seenItems, initPending, startsLeft,
                   initIds, initLive, deferredLive, evicted>>

\* checkFeed: parser.parseURL rejected; the catch block logs the error and
\* checkFeed returns
FetchRejected_uncaught(c) ==
    /\ cyc' = [cyc EXCEPT ![c].pc = "done", ![c].outcome = "rejected"]
    /\ UNCHANGED <<seenItems, dispatchLog, initLive, deferredLive, evicted>>

FetchRejected(c) ==
    /\ cyc' = [cyc EXCEPT ![c].pc = "done", ![c].outcome = "resolved"]
    /\ UNCHANGED <<seenItems, dispatchLog, initLive, deferredLive, evicted>>

\* the feed fetch of activation c settles: partition, safety limit, and the
\* dispatch loop up to its first await
FeedSettled(c, feedResult) ==
    /\ cyc[c].pc = "fetch"
    /\ CanServe(feedResult)
    /\ Served(feedResult)
    /\ IF feedResult = FetchFailed
       THEN FetchRejected(c)
       ELSE LET st == Partition(feedResult, seenItems)
                limit == maxItemsLimit(config)
                n == Len(st.newItems)
                tp == itemsToProcess(st.newItems, limit)
                cut == Range(SubSeq(st.newIds, Len(tp) + 1, n))
                r == [cyc[c] EXCEPT
                        !.fetched = TRUE,
                        !.feedNo = feedResult,
                        !.oldInit = FeedIds[feedResult] \cap initLive,
                        !.oldDeferred = FeedIds[feedResult] \cap deferredLive,
                        !.found = n,
                        !.newIds = Range(st.newIds),
                        !.limit = limit,
                        !.warned = SafetyWarning(n, limit),
                        !.toProcess = tp]
            IN Continue(c, r, st.seenItems, deferredLive \cup cut)
    /\ UNCHANGED <<mgrVars, stopState, config, options, initFetch, task, schedules, timers, lastCheck, initPending, startsLeft,
                   checksLeft, initIds>>

\* await this.handleTriggerEvent(...): the loop goes on when the call has
\* settled (n: the calls of the activation not yet settled)
AwaitSettled_detached(n) == n

AwaitSettled(n) == n - 1

\* the handleTriggerEvent call awaited by activation c settles; handlerResult
\* is how onTrigger settled (when it was invoked at all)
DispatchSettled(c, handlerResult) ==
    /\ cyc[c].pc = "dispatch"
    /\ handlerResult = "rejected" => InvokesHandler(config)
    /\ LET r == [cyc[c] EXCEPT !.inFlight = AwaitSettled(cyc[c].inFlight),
                               !.firstReject =
                    IF handlerResult = "rejected" /\ cyc[c].firstReject = 0
                    THEN Len(cyc[c].events) ELSE cyc[c].firstReject]
       IN
       IF handleTriggerEvent(config, handlerResult) = "rejected"
       THEN \* the rejection lands in checkFeed's catch block
            /\ cyc' = [cyc EXCEPT ![c] = [r EXCEPT !.pc = "done", !.outcome = "resolved"]]
            /\ UNCHANGED <<seenItems, dispatchLog, initLive, deferredLive, evicted>>
       ELSE Continue(c, r, seenItems, deferredLive)
    /\ UNCHANGED <<mgrVars, stopState, config, options, initFetch, bulkLeft, task, schedules, timers, lastCheck, initPending, startsLeft,
                   checksLeft, initIds>>

----------------------------------------------------------------------------

Next ==
    \/ Start
    \/ \E f \in FetchResults : InitSettled(f)
    \/ Stop
    \/ Tick
    \/ TimerFires
    \/ RunTestCheck
    \/ \E c \in Slots : \E f \in FetchResults : FeedSettled(c, f)
    \/ \E c \in Slots : \E h \in {"resolved", "rejected"} : DispatchSettled(c, h)

Spec == Init /\ [][Next]_vars

\* the trigger as its owner drives it: start() and stop(), and check cycles
\* that only the schedule and the test-mode timer begin
NextLife ==
    \/ Start
    \/ \E f \in FetchResults : InitSettled(f)
    \/ Stop
    \/ Tick
    \/ TimerFires
    \/ \E c \in Slots : \E f \in FetchResults : FeedSettled(c, f)
    \/ \E c \in Slots : \E h \in {"resolved", "rejected"} : DispatchSettled(c, h)

InitLife ==
    /\ config \in Configs
    /\ options = NoOptions
    /\ startsLeft = MaxStarts
    /\ checksLeft = MaxChecks
    /\ bulkLeft = 0
    /\ Constructed
    /\ stopState = "never"
    /\ initFetch = "none"
    /\ NoManager

SpecLife == InitLife /\ [][NextLife]_vars

SpecCaps == InitCaps /\ [][Next]_vars

----------------------------------------------------------------------------
(* The command line: triggers --test <id> [--test-limit <number>] *)

\* the values of --test-limit explored; commander supplies "2" when the
\* option is not given
TestLimitOptions == {"2", "0", "1", "3", "abc"}

\* parseInt on these strings; NaN is written undefined (both are falsy)
parseInt(str) ==
    CASE str = "0" -> 0
      [] str = "1" -> 1
      [] str = "2" -> 2
      [] str = "3" -> 3
      [] OTHER -> undefined

\* const testLimit = parseInt(options.testLimit) || 2
testLimit(opts) == Or(parseInt(opts.testLimit), CliFallbackLimit)

\* { ...triggerConfig, testMode: true, maxItemsPerCheck: testLimit }
testConfig(triggerConfig, opts) ==
    [triggerConfig EXCEPT !.testMode = TRUE, !.maxItemsPerCheck = testLimit(opts)]

\* the configured trigger that --test names
TestTriggerConfigs ==
    [enabled : BOOLEAN, testMode : {FALSE},
     maxItemsPerCheck : {undefined, 3}, maxItems : {undefined, 1}]

\* the test run has loaded the trigger from testConfig; startTrigger follows
InitTest ==
    /\ options \in [test : {"a"}, testLimit : TestLimitOptions]
    /\ config \in {testConfig(t, options) : t \in TestTriggerConfigs}
    /\ startsLeft = TestStarts
    /\ checksLeft = TestChecks
    /\ bulkLeft = 0
    /\ Constructed
    /\ stopState = "never"
    /\ initFetch = "none"
    /\ NoManager

\* await triggerManager.stopTrigger(options.test), after startTrigger has
\* resolved and the wait has passed
TestStop ==
    /\ startsLeft < TestStarts
    /\ initPending = 0
    /\ stopState = "never"
    /\ Stop

NextTest ==
    \/ Start
    \/ \E f \in FetchResults : InitSettled(f)
    \/ TestStop
    \/ Tick
    \/ TimerFires
    \/ \E c \in Slots : \E f \in FetchResults : FeedSettled(c, f)
    \/ \E c \in Slots : \E h \in {"resolved", "rejected"} : DispatchSettled(c, h)

SpecTest == InitTest /\ [][NextTest]_vars

SpecBulk == InitBulk /\ [][Next]_vars

\* the environment serves the large snapshot more than once, so that a cycle
\* can get it again after a compaction
InitEvict ==
    /\ config \in BulkConfigs
    /\ options = NoOptions
    /\ startsLeft = BulkStarts
    /\ checksLeft = BulkChecks
    /\ bulkLeft = EvictBulk
    /\ Constructed
    /\ stopState = "untracked"
    /\ initFetch = "untracked"
    /\ NoManager

SpecEvict == InitEvict /\ [][Next]_vars


----------------------------------------------------------------------------
(* TriggerManager: operations. The caller awaits each before the next. *)

ManagerFree ==
    /\ op.pc \in {"idle", "done"}
    /\ hnd.pc \in {"idle", "done"}
    /\ opsLeft > 0

NewOp(name) == [IdleOp EXCEPT !.name = name, !.triggers0 = triggers]

\* for (const [id, trigger] of this.triggers): the entries the loop visits
Entries_none(m) == <<>>

Entries(m) == m

\* the loops of startAllTriggers and stopAllTriggers after the awaited call
\* settled: a rejection is caught and logged with the id, the loop goes on
LoopSettled_abort(o, res, settled) ==
    [o EXCEPT !.cur = IdleOp.cur,
              !.todo = IF res = "rejected" THEN <<>> ELSE o.todo,
              !.log = Append(o.log, Ev(settled, o.cur.inst, res))]

LoopSettled(o, res, settled) ==
    [o EXCEPT !.cur = IdleOp.cur,
              !.log = IF res = "rejected"
                      THEN o.log \o <<Ev(settled, o.cur.inst, res),
                                      Ev("errorLogged", o.cur.inst, o.cur.id)>>
                      ELSE Append(o.log, Ev(settled, o.cur.inst, res))]

\* what the caller of stopAllTriggers does once it has resolved
AfterStops_return(name) == "return"

AfterStops(name) ==
    CASE name = "loadTriggers" -> "load"
      [] name = "cleanup" -> "close"
      [] OTHER -> "return"

\* this.triggers.clear()
Cleared_kept(m) == m

Cleared(m) == <<>>

\* stopAllTriggers, from the head of its loop to the next await or, past
\* triggers.clear(), through the rest of the calling method
StopLoop(o) ==
    IF o.todo # <<>>
    THEN /\ op' = [o EXCEPT !.pc = "awaitStop", !.cur = Head(o.todo), !.todo = Tail(o.todo),
                            !.log = Append(o.log, Ev("stop", Head(o.todo).inst, Head(o.todo).id))]
         /\ UNCHANGED <<triggers, made, fetcherClosed>>
    ELSE CASE AfterStops(o.name) = "load" ->
                LET r == LoadLoop(o.configs, <<>>, made, o.log) IN
                /\ triggers' = r.triggers
                /\ made' = r.made
                /\ op' = [o EXCEPT !.pc = "done", !.outcome = "resolved", !.log = r.log]
                /\ UNCHANGED fetcherClosed
           [] AfterStops(o.name) = "close" ->
                /\ triggers' = Cleared(triggers)
                /\ fetcherClosed' = fetcherClosed + 1
                /\ op' = [o EXCEPT !.pc = "awaitClose", !.log = Append(o.log, Ev("close", 0, ""))]
                /\ UNCHANGED made
           [] OTHER ->
                /\ triggers' = Cleared(triggers)
                /\ op' = [o EXCEPT !.pc = "done", !.outcome = "resolved"]
                /\ UNCHANGED <<made, fetcherClosed>>

\* startAllTriggers, from the head of its loop to the next await or its end
StartLoop(o) ==
    /\ op' = IF o.todo # <<>>
             THEN [o EXCEPT !.pc = "awaitStart", !.cur = Head(o.todo), !.todo = Tail(o.todo),
                            !.log = Append(o.log, Ev("start", Head(o.todo).inst, Head(o.todo).id))]
             ELSE [o EXCEPT !.pc = "done", !.outcome = "resolved"]
    /\ UNCHANGED <<triggers, made, fetcherClosed>>

LoadTriggers(cfgs) ==
    /\ ManagerFree
    /\ opsLeft' = opsLeft - 1
    /\ StopLoop([NewOp("loadTriggers") EXCEPT !.configs = cfgs, !.todo = Entries(triggers)])
    /\ UNCHANGED <<rssVars, hnd, handlersLeft>>

StopAllTriggers ==
    /\ ManagerFree
    /\ opsLeft' = opsLeft - 1
    /\ StopLoop([NewOp("stopAllTriggers") EXCEPT !.todo = Entries(triggers)])
    /\ UNCHANGED <<rssVars, hnd, handlersLeft>>

\* TriggerManager.cleanup
ManagerCleanup ==
    /\ ManagerFree
    /\ opsLeft' = opsLeft - 1
    /\ StopLoop([NewOp("cleanup") EXCEPT !.todo = Entries(triggers)])
    /\ UNCHANGED <<rssVars, hnd, handlersLeft>>

\* the trigger.stop() awaited by stopAllTriggers settles
StopSettled(res) ==
    /\ op.pc = "awaitStop"
    /\ StopLoop(LoopSettled(op, res, "stopSettled"))
    /\ UNCHANGED <<rssVars, hnd, opsLeft, handlersLeft>>

\* the fetcher.close() awaited by cleanup settles
CloseSettled(res) ==
    /\ op.pc = "awaitClose"
    /\ op' = [op EXCEPT !.pc = "done", !.outcome = res,
                        !.log = Append(op.log, Ev("closeSettled", 0, res))]
    /\ UNCHANGED <<rssVars, triggers, made, fetcherClosed, hnd, opsLeft, handlersLeft>>

StartAllTriggers ==
    /\ ManagerFree
    /\ opsLeft' = opsLeft - 1
    /\ StartLoop([NewOp("startAllTriggers") EXCEPT !.todo = Entries(triggers)])
    /\ UNCHANGED <<rssVars, hnd, handlersLeft>>

\* the trigger.start() awaited by startAllTriggers settles
StartSettled(res) ==
    /\ op.pc = "awaitStart"
    /\ StartLoop(LoopSettled(op, res, "startSettled"))
    /\ UNCHANGED <<rssVars, hnd, opsLeft, handlersLeft>>

\* startTrigger(id) and stopTrigger(id), up to the await (call: "start" or "stop")
CallOne(name, call, id) ==
    /\ ManagerFree
    /\ opsLeft' = opsLeft - 1
    /\ LET inst == MapGet(triggers, id)
           o == [NewOp(name) EXCEPT !.id = id]
       IN op' = IF inst = 0
                THEN [o EXCEPT !.pc = "done", !.outcome = "rejected",
                               !.error = <<"Trigger", id, "not found">>]
                ELSE [o EXCEPT !.pc = "awaitOne", !.cur = [id |-> id, inst |-> inst],
                               !.log = <<Ev(call, inst, id)>>]
    /\ UNCHANGED <<rssVars, triggers, made, fetcherClosed, hnd, handlersLeft>>

StartTrigger(id) == CallOne("startTrigger", "start", id)

StopTrigger(id) == CallOne("stopTrigger", "stop", id)

\* the start() or stop() awaited by startTrigger / stopTrigger settles; a
\* rejection is passed on to the caller
OneSettled(res) ==
    /\ op.pc = "awaitOne"
    /\ op' = [op EXCEPT !.pc = "done", !.outcome = res, !.cur = IdleOp.cur,
                        !.log = Append(op.log, Ev("settled", op.cur.inst, res))]
    /\ UNCHANGED <<rssVars, triggers, made, fetcherClosed, hnd, opsLeft, handlersLeft>>

----------------------------------------------------------------------------
(* TriggerManager: the handler closure of createTriggerHandler *)

\* the calls the try block awaits, in order
HandlerSteps == <<"fetchArticle", "loadConfig", "summarize", "saveArticle">>

StepAfter(step) ==
    HandlerSteps[1 + CHOOSE k \in 1..Len(HandlerSteps) : HandlerSteps[k] = step]

\* catch (error) { console.error(...) }: how the closure settles when a step rejected
HandlerCaught_rethrow(step) == "rejected"

HandlerCaught(step) == "resolved"

\* a held trigger, instance i, invokes the handler made for it
HandlerInvoked(i) ==
    /\ i \in Range(Values(triggers))
    /\ op.pc \in {"idle", "done"}
    /\ handlersLeft > 0
    /\ hnd.pc \in {"idle", "done"}
    /\ handlersLeft' = handlersLeft - 1
    /\ hnd' = [IdleHandler EXCEPT !.pc = "fetchArticle", !.inst = i]
    /\ UNCHANGED <<rssVars, triggers, made, op, fetcherClosed, opsLeft>>

\* the lengths of article.markdownContent explored (undefined: no content)
ContentLengths == {undefined, 0, MinContent - 1, MinContent}

\* !(!article.markdownContent || article.markdownContent.length < 100)
SufficientContent_any(len) == TRUE

SufficientContent(len) == ~(Falsy(len) \/ len < MinContent)

\* config.prompts[triggerConfig.profile] || config.prompts[config.defaultPrompt]
\* (named, dflt: the profile of the trigger, the default profile, exists)
promptTemplate_named(named, dflt) == IF named THEN "named" ELSE ""

promptTemplate(named, dflt) ==
    IF named THEN "named" ELSE IF dflt THEN "default" ELSE ""

\* what an awaited step can settle with: fetchArticle resolves with content
\* of some length, loadConfig with a config that has or lacks the two profiles
HandlerResults ==
    [kind : {"ok", "rejected"}, content : ContentLengths, named : BOOLEAN, dflt : BOOLEAN]

\* the awaited step settles with res, and the closure runs to its next await
\* or to its end
HandlerSettled(res) ==
    /\ hnd.pc \in Range(HandlerSteps)
    /\ (hnd.pc # "fetchArticle" \/ res.kind = "rejected") => res.content = undefined
    /\ (hnd.pc # "loadConfig" \/ res.kind = "rejected") => ~res.named /\ ~res.dflt
    /\ hnd' = CASE res.kind = "rejected" ->
                     [hnd EXCEPT !.pc = "done", !.failedAt = hnd.pc,
                                 !.outcome = HandlerCaught(hnd.pc)]
                [] res.kind = "ok" /\ hnd.pc = "fetchArticle" ->
                     IF SufficientContent(res.content)
                     THEN [hnd EXCEPT !.pc = StepAfter(hnd.pc), !.content = res.content]
                     ELSE [hnd EXCEPT !.pc = "done", !.content = res.content,
                                      !.returnedAt = hnd.pc, !.outcome = "resolved"]
                [] res.kind = "ok" /\ hnd.pc = "loadConfig" ->
                     LET t == promptTemplate(res.named, res.dflt)
                         h == [hnd EXCEPT !.profiles =
                                  IF res.named THEN (IF res.dflt THEN "both" ELSE "named")
                                  ELSE (IF res.dflt THEN "default" ELSE "none")]
                     IN
                     IF t # ""
                     THEN [h EXCEPT !.pc = StepAfter(hnd.pc), !.prompt = t,
                                    !.summarized = TRUE]
                     ELSE [h EXCEPT !.pc = "done", !.returnedAt = hnd.pc,
                                    !.outcome = "resolved"]
                [] res.kind = "ok" /\ hnd.pc = "saveArticle" ->
                     [hnd EXCEPT !.pc = "done", !.saved = TRUE, !.outcome = "resolved"]
                [] OTHER -> [hnd EXCEPT !.pc = StepAfter(hnd.pc)]
    /\ UNCHANGED <<rssVars, triggers, made, op, fetcherClosed, opsLeft, handlersLeft>>

----------------------------------------------------------------------------
(* The manager on its own: the triggers it holds are driven by their own
   schedules, which the specifications above explore. The handler closure
   shares no state with the operations and is explored under SpecHandler. *)

InitMgr ==
    /\ config = [enabled |-> TRUE, testMode |-> FALSE,
                 maxItemsPerCheck |-> undefined, maxItems |-> undefined]
    /\ options = NoOptions
    /\ startsLeft = 0
    /\ checksLeft = 0
    /\ bulkLeft = 0
    /\ Constructed
    /\ stopState = "untracked"
    /\ initFetch = "untracked"
    /\ ManagerConstructed
    /\ opsLeft = MaxOps
    /\ handlersLeft = 0

Settlements == {"resolved", "rejected"}

NextMgr ==
    \/ \E cfgs \in ConfigLists : LoadTriggers(cfgs)
    \/ StartAllTriggers
    \/ StopAllTriggers
    \/ ManagerCleanup
    \/ \E id \in TriggerIds : StartTrigger(id)
    \/ \E id \in TriggerIds : StopTrigger(id)
    \/ \E res \in Settlements : StopSettled(res)
    \/ \E res \in Settlements : StartSettled(res)
    \/ \E res \in Settlements : OneSettled(res)
    \/ \E res \in Settlements : CloseSettled(res)

SpecMgr == InitMgr /\ [][NextMgr]_vars

\* A manager that holds the trigger modelled above, as instance 1 under the
\* id "a": the owner starts it, its schedule runs, and cleanup() is called
InitOwned ==
    /\ config \in Configs
    /\ options = NoOptions
    /\ startsLeft = OwnedStarts
    /\ checksLeft = OwnedChecks
    /\ bulkLeft = 0
    /\ Constructed
    /\ stopState = "never"
    /\ initFetch = "untracked"
    /\ triggers = <<[id |-> "a", inst |-> 1]>>
    /\ made = 1
    /\ op = IdleOp
    /\ fetcherClosed = 0
    /\ hnd = IdleHandler
    /\ opsLeft = 1
    /\ handlersLeft = 0

\* startTrigger / startAllTriggers reach trigger.start() while the trigger is held
OwnedStart ==
    /\ triggers # <<>>
    /\ op.pc = "idle"
    /\ Start

\* cleanup() on the manager that holds the trigger: stopAllTriggers calls
\* trigger.stop(), whose body runs at the call
CleanupOwned ==
    /\ ManagerFree
    /\ triggers # <<>>
    /\ opsLeft' = opsLeft - 1
    /\ StopLoop([NewOp("cleanup") EXCEPT !.todo = Entries(triggers)])
    /\ StopBody
    /\ UNCHANGED <<hnd, handlersLeft, config, options, dispatchLog, initFetch, bulkLeft,
                   timers, seenItems, lastCheck, initPending, cyc, startsLeft, checksLeft,
                   initIds, initLive, deferredLive, evicted>>

NextOwned ==
    \/ OwnedStart
    \/ \E f \in FetchResults : InitSettled(f)
    \/ Tick
    \/ TimerFires
    \/ \E c \in Slots : \E f \in FetchResults : FeedSettled(c, f)
    \/ \E c \in Slots : \E h \in {"resolved", "rejected"} : DispatchSettled(c, h)
    \/ CleanupOwned
    \/ \E res \in Settlements : StopSettled(res)
    \/ \E res \in Settlements : CloseSettled(res)

SpecOwned == InitOwned /\ [][NextOwned]_vars

\* The handler closures of a manager that has loaded a list of configs
InitHandler ==
    /\ config = [enabled |-> TRUE, testMode |-> FALSE,
                 maxItemsPerCheck |-> undefined, maxItems |-> undefined]
    /\ options = NoOptions
    /\ startsLeft = 0
    /\ checksLeft = 0
    /\ bulkLeft = 0
    /\ Constructed
    /\ stopState = "untracked"
    /\ initFetch = "untracked"
    /\ \E cfgs \in ConfigLists :
          LET r == LoadLoop(cfgs, <<>>, 0, <<>>) IN
          /\ triggers = r.triggers
          /\ made = r.made
          /\ op = [IdleOp EXCEPT !.name = "loadTriggers", !.pc = "done", !.configs = cfgs,
                                 !.outcome = "resolved", !.log = r.log]
    /\ fetcherClosed = 0
    /\ hnd = IdleHandler
    /\ opsLeft = 0
    /\ handlersLeft = MaxHandlers

NextHandler ==
    \/ \E i \in 1..made : HandlerInvoked(i)
    \/ \E res \in HandlerResults : HandlerSettled(res)

SpecHandler == InitHandler /\ [][NextHandler]_vars

----------------------------------------------------------------------------
(* Vocabulary of the properties *)

\* the items of the events activation c passed to handleTriggerEvent
EventItems(c) == [k \in 1..Len(cyc[c].events) |-> cyc[c].events[k].item]

EventIds(c) == {getItemId(cyc[c].events[k].item) : k \in 1..Len(cyc[c].events)}

\* the items of a list that have a link, in order
LinkedOf(items) == SelectSeq(items, LAMBDA it : it.link # 0)

\* activation c got its feed and ran to its end
Finished(c) == cyc[c].pc = "done" /\ cyc[c].fetched

\* every guid, link and id that occurs in a snapshot
KnownIds ==
    UNION {UNION {{FeedList[i][k].guid, FeedList[i][k].link, FeedList[i][k].id} :
                     k \in 1..Len(FeedList[i])} : i \in 1..Len(FeedList)} \ {0}

\* the identifiers of the items of each snapshot that have no link
Linkless ==
    [i \in 1..Len(FeedList) |->
        {ItemIds[i][k] : k \in {j \in 1..Len(FeedList[i]) : FeedList[i][j].link = 0}}
            \ {null}]

ScenarioNo == FeedNo(FeedScenario)

----------------------------------------------------------------------------
(* C1 *)

\* C1, as stated: a normal-mode trigger never dispatches an event for an item
\* whose identifier was in the feed at a (successful) initialization.
C1_NeverDispatchesSeeded ==
    ~config.testMode =>
        \A c \in Slots : \A k \in 1..Len(cyc[c].events) : ~cyc[c].events[k].seeded

\* C1, amended: a check cycle of a normal-mode trigger dispatches no event for
\* an item whose identifier was seeded by an initialization that completed
\* before the cycle got its feed and that the cleanup has not evicted from the
\* seen-set since.
C1_NoLiveSeededDispatched ==
    ~config.testMode =>
        \A c \in Slots : EventIds(c) \cap cyc[c].oldInit = {}

\* a cycle whose feed held seeded identifiers ended after dispatching others
C1_Witness ==
    /\ ~config.testMode
    /\ \E c \in Slots : Finished(c) /\ cyc[c].oldInit # {} /\ cyc[c].events # <<>>

----------------------------------------------------------------------------
(* C2 *)

\* C2, as stated: a cycle that finds N new items under the cap C ends with
\* exactly min(N, C) events dispatched to the handler and with all N
\* identifiers in the seen-set.
C2_ExactlyMinDispatched ==
    \A c \in Slots :
        Finished(c) =>
            /\ Len(cyc[c].invoked) = Min(cyc[c].found, cyc[c].limit)
            /\ cyc[c].missingAtEnd = {}

\* C2, amended: a cycle that finds N new items under the cap C selects exactly
\* min(N, C) of them; it passes exactly the selected items that have a link to
\* the dispatch step, which invokes the handler for each of them when the
\* trigger is enabled and for none when it is disabled; when the cycle ends,
\* all N identifiers are in the seen-set except those the cleanup has evicted.
C2_SelectsMinDispatchesLinked ==
    \A c \in Slots :
        Finished(c) =>
            /\ Len(cyc[c].toProcess) = Min(cyc[c].found, cyc[c].limit)
            /\ EventItems(c) = LinkedOf(cyc[c].toProcess)
            /\ cyc[c].invoked = IF config.enabled THEN EventItems(c) ELSE <<>>
            /\ cyc[c].missingAtEnd \subseteq evicted

\* a cycle found more items than the cap and the handler got as many as the cap
C2_Witness ==
    \E c \in Slots :
        /\ Finished(c)
        /\ cyc[c].found > cyc[c].limit
        /\ Len(cyc[c].invoked) = cyc[c].limit

----------------------------------------------------------------------------
(* C3 *)

----------------------------------------------------------------------------
(* C4, C5, C6: the effective cap *)

\* C4: when maxItemsPerCheck and maxItems are both set, the cap of a check
\* cycle is maxItemsPerCheck, whatever the two values are.
C4_PerCheckAlwaysWins ==
    (config.maxItemsPerCheck # undefined /\ config.maxItems # undefined) =>
        \A c \in Slots : cyc[c].fetched => cyc[c].limit = config.maxItemsPerCheck

\* C5: outside test mode, with no maxItemsPerCheck, the cap is 3 when maxItems
\* is not configured either and maxItems when it is; with neither configured
\* a cycle dispatches min(N, 3) of its N new items when all of them have a link.
C5_DefaultAndLegacyCap ==
    (~config.testMode /\ config.maxItemsPerCheck = undefined) =>
        \A c \in Slots :
            /\ cyc[c].fetched =>
                  cyc[c].limit = IF config.maxItems = undefined THEN DefaultLimit
                                 ELSE config.maxItems
            /\ (Finished(c) /\ config.maxItems = undefined
                  /\ LinkedOf(cyc[c].toProcess) = cyc[c].toProcess) =>
                  Len(cyc[c].events) = Min(cyc[c].found, DefaultLimit)

\* C6: in test mode with no cap configured a check cycle dispatches at most 2
\* events.
C6_TestModeDefaultCap ==
    (config.testMode /\ config.maxItemsPerCheck = undefined
        /\ config.maxItems = undefined) =>
        \A c \in Slots : Len(cyc[c].events) <= TestModeLogLimit

----------------------------------------------------------------------------
(* C7 *)

\* C7: an item with none of guid, link and id is never dispatched and never
\* adds an entry to the seen-set: the seen-set holds only identifiers that
\* occur as the guid, link or id of a feed item.
C7_UnidentifiableExcluded ==
    /\ null \notin Range(seenItems)
    /\ Range(seenItems) \subseteq KnownIds
    /\ \A c \in Slots : \A k \in 1..Len(cyc[c].events) :
          cyc[c].events[k].item # ItemNoId

\* a cycle on a snapshot with an unidentifiable item ended, having found items
C7_Witness ==
    \E c \in Slots :
        /\ Finished(c)
        /\ \E k \in 1..Len(FeedList[cyc[c].feedNo]) : FeedList[cyc[c].feedNo][k] = ItemNoId
        /\ cyc[c].newIds # {}

----------------------------------------------------------------------------
(* C8 *)

\* C8: an item with an identifier but no link is never dispatched, and its
\* identifier is in the seen-set from the cycle that gets it in its feed on
\* (until the cleanup evicts it).
C8_LinklessSeenNotDispatched ==
    \A c \in Slots :
        /\ \A k \in 1..Len(cyc[c].events) : cyc[c].events[k].item.link # 0
        /\ cyc[c].fetched =>
              Linkless[cyc[c].feedNo] \subseteq (Range(seenItems) \cup evicted)

\* a cycle selected a new item without a link, ended, and its identifier is seen
C8_Witness ==
    \E c \in Slots :
        /\ Finished(c)
        /\ \E k \in 1..Len(cyc[c].toProcess) : cyc[c].toProcess[k] = ItemNoLink
        /\ getItemId(ItemNoLink) \in Range(seenItems)

----------------------------------------------------------------------------
(* C9 *)

\* C9: when the handler rejects for an item of a cycle, the cycle does not
\* reject and still dispatches every later selected item that has a link.
C9_RejectionDoesNotStopCycle ==
    \A c \in Slots :
        cyc[c].firstReject # 0 =>
            /\ cyc[c].outcome # "rejected"
            /\ cyc[c].pc = "done" =>
                  /\ cyc[c].outcome = "resolved"
                  /\ EventItems(c) = LinkedOf(cyc[c].toProcess)

\* the handler rejected the first event of a cycle that dispatched more
C9_Witness ==
    \E c \in Slots :
        /\ cyc[c].pc = "done"
        /\ cyc[c].firstReject = 1
        /\ Len(cyc[c].invoked) >= 2

----------------------------------------------------------------------------
(* C10 *)

\* C10: with enabled = false the handler is never invoked, while the check
\* cycles still run and every identifier they find new is in the seen-set
\* (until the cleanup evicts it).
C10_DisabledDropsEvents ==
    ~config.enabled =>
        \A c \in Slots :
            /\ cyc[c].invoked = <<>>
            /\ cyc[c].fetched => cyc[c].newIds \subseteq (Range(seenItems) \cup evicted)

\* a cycle of a disabled trigger found new items, passed events on, and ended
C10_Witness ==
    /\ ~config.enabled
    /\ \E c \in Slots : Finished(c) /\ cyc[c].newIds # {} /\ cyc[c].events # <<>>

----------------------------------------------------------------------------
(* C11 *)

\* C11: from the return of stop() until the next call of start(), the
\* trigger invokes the handler for no event, in normal and in test mode.
\* (Checked where checkFeed is only called by the schedule and the timer.)
C11_NoDispatchWhileStopped ==
    [][stopState = "stopped" =>
          \A c \in Slots : Len(cyc'[c].invoked) <= Len(cyc[c].invoked)]_vars

----------------------------------------------------------------------------
(* C12 *)

\* C12: as long as stop() was never called, however often and whenever
\* start() is called, at most one cron schedule of the trigger is armed.
C12_AtMostOneSchedule == stopState = "never" => schedules <= 1

----------------------------------------------------------------------------
(* C20 *)

\* C20: when the feed fetch of a check cycle fails, the cycle ends resolved
\* without having dispatched an event, the seen-set is as it was, and the
\* trigger keeps its schedule handle and its armed schedules.
C20_FetchFailureIsNoOp ==
    [][\A c \in Slots :
          (cyc[c].pc = "fetch" /\ cyc'[c].pc = "done" /\ ~cyc'[c].fetched) =>
              /\ cyc'[c].outcome = "resolved"
              /\ cyc'[c].events = <<>>
              /\ cyc'[c].invoked = <<>>
              /\ seenItems' = seenItems
              /\ task' = task
              /\ schedules' = schedules]_vars

\* a cycle of a running trigger with a non-empty seen-set ended on a failed
\* fetch, and a later cycle has been started by the schedule
C20_Witness ==
    /\ task
    /\ schedules > 0
    /\ seenItems # <<>>
    /\ \E c, d \in Slots :
          /\ cyc[c].pc = "done" /\ ~cyc[c].fetched /\ cyc[c].outcome = "resolved"
          /\ cyc[d].pc = "fetch"

----------------------------------------------------------------------------
(* Vocabulary of the properties of the manager *)

\* the instances held when the operation in progress (or the last one) was called
Held0 == Range(Values(op.triggers0))

\* the positions in the log of the operation of the entries e for instance inst
LogPos(e, inst) == {k \in 1..Len(op.log) : op.log[k].e = e /\ op.log[k].inst = inst}

\* the number of entries e in the log of the operation
LogCount(e) == Cardinality({k \in 1..Len(op.log) : op.log[k].e = e})

\* before position k of the log, stop() was called on instance i and settled
StoppedBefore(i, k) ==
    \E a, b \in 1..(k - 1) : a < b /\ a \in LogPos("stop", i) /\ b \in LogPos("stopSettled", i)

LoadDone == op.name = "loadTriggers" /\ op.pc = "done"

\* the configs of the loaded list with a recognized type, in order
RecognizedConfigs == SelectSeq(op.configs, LAMBDA cfg : cfg.type = "rss")

FirstPos(cfgs, id) == CHOOSE k \in 1..Len(cfgs) : cfgs[k].id = id /\ \A j \in 1..(k - 1) : cfgs[j].id # id

----------------------------------------------------------------------------
(* C13 *)

\* C13: loadTriggers calls stop() once on every trigger held before the call,
\* each of those stops has settled before the first new instance is
\* constructed, and after the call none of the old instances is held.
C13_StopsOldBeforeConstructing ==
    op.name = "loadTriggers" =>
        /\ \A k \in 1..Len(op.log) :
              op.log[k].e = "construct" => \A i \in Held0 : StoppedBefore(i, k)
        /\ op.pc = "done" =>
              /\ \A i \in Held0 :
                    Cardinality(LogPos("stop", i)) = 1 /\ StoppedBefore(i, Len(op.log) + 1)
              /\ Range(Values(triggers)) \cap Held0 = {}

\* a loadTriggers call that found two triggers held has ended, holding new ones
C13_Witness ==
    /\ LoadDone
    /\ Cardinality(Held0) = 2
    /\ triggers # <<>>

----------------------------------------------------------------------------
(* C14 *)

\* C14: startTrigger(id) and stopTrigger(id) with an id that is not held
\* reject with 'Trigger <id> not found', call start/stop on no trigger, and
\* leave the held triggers as they were.
C14_NotFoundRejects ==
    (op.name \in {"startTrigger", "stopTrigger"} /\ op.id \notin Range(Keys(op.triggers0))) =>
        /\ op.pc = "done"
        /\ op.outcome = "rejected"
        /\ op.error = <<"Trigger", op.id, "not found">>
        /\ op.log = <<>>
        /\ triggers = op.triggers0

\* stopTrigger was called with an id that is not held while another id is held
C14_Witness ==
    /\ op.name = "stopTrigger"
    /\ op.id \notin Range(Keys(op.triggers0))
    /\ triggers # <<>>
    /\ op.outcome = "rejected"

----------------------------------------------------------------------------
(* C15 *)

\* C15: loadTriggers resolves; for every config of an unrecognized type it
\* logs 'Unknown trigger type' and constructs nothing; for every config of a
\* recognized type it constructs an instance, and a trigger constructed by
\* this call is held under the id of every recognized config.
C15_UnknownTypeSkipped ==
    LoadDone =>
        /\ op.outcome = "resolved"
        /\ LogCount("construct") = Len(RecognizedConfigs)
        /\ LogCount("unknownType") = Len(op.configs) - Len(RecognizedConfigs)
        /\ \A k \in 1..Len(op.configs) :
              IF op.configs[k].type = "rss"
              THEN \E j \in 1..Len(triggers) :
                      /\ triggers[j].id = op.configs[k].id
                      /\ LogPos("construct", triggers[j].inst) # {}
              ELSE \E j \in 1..Len(op.log) :
                      op.log[j] = Ev("unknownType", 0, op.configs[k].type)

\* a list with an unknown type before a recognized one has been loaded
C15_Witness ==
    /\ LoadDone
    /\ Len(op.configs) = 2
    /\ op.configs[1].type # "rss"
    /\ op.configs[2].type = "rss"
    /\ Len(triggers) = 1

----------------------------------------------------------------------------
(* C16 *)

\* C16: startAllTriggers and stopAllTriggers never reject; they call
\* start/stop once on every held trigger whether or not earlier calls
\* rejected, and log every rejection with the id of its trigger.
C16_BulkIsolatesFailures ==
    op.name \in {"startAllTriggers", "stopAllTriggers"} =>
        LET call == IF op.name = "startAllTriggers" THEN "start" ELSE "stop"
            settled == IF op.name = "startAllTriggers" THEN "startSettled" ELSE "stopSettled"
        IN
        /\ op.outcome # "rejected"
        /\ op.pc = "done" =>
              /\ op.outcome = "resolved"
              /\ \A i \in Held0 :
                    Cardinality(LogPos(call, i)) = 1 /\ Cardinality(LogPos(settled, i)) = 1
        /\ \A k \in 1..Len(op.log) :
              (op.log[k].e = settled /\ op.log[k].text = "rejected") =>
                  /\ k < Len(op.log)
                  /\ op.log[k + 1].e = "errorLogged"
                  /\ op.log[k + 1].inst = op.log[k].inst
                  /\ \E j \in 1..Len(op.triggers0) :
                        op.triggers0[j] = [id |-> op.log[k + 1].text, inst |-> op.log[k].inst]

\* startAllTriggers has ended after the start of the first of two triggers rejected
C16_Witness ==
    /\ op.name = "startAllTriggers"
    /\ op.pc = "done"
    /\ Cardinality(Held0) = 2
    /\ \E k \in 1..Len(op.log) :
          /\ op.log[k].e = "startSettled" /\ op.log[k].text = "rejected"
          /\ \E j \in (k + 1)..Len(op.log) : op.log[j].e = "start"

----------------------------------------------------------------------------
(* C17 *)

\* C17: after loadTriggers, listTriggers() is the ids of the configs with a
\* recognized type, each once, in the order of their first occurrence in the
\* list, and the keys of getTriggerStatus() are exactly those ids.
C17_ListIsRecognizedIdsInOrder ==
    LoadDone =>
        LET ids == listTriggers(triggers)
            rec == RecognizedConfigs
            recIds == {rec[k].id : k \in 1..Len(rec)}
        IN
        /\ Range(ids) = recIds
        /\ \A i, j \in 1..Len(ids) : i < j =>
              /\ ids[i] # ids[j]
              /\ FirstPos(rec, ids[i]) < FirstPos(rec, ids[j])
        /\ getTriggerStatusKeys(triggers) = recIds

\* the list <<b, a>> has been loaded over a manager that held a trigger
C17_Witness ==
    /\ LoadDone
    /\ op.triggers0 # <<>>
    /\ Len(op.configs) = 2
    /\ listTriggers(triggers) = <<"b", "a">>

----------------------------------------------------------------------------
(* C18 *)

\* C18: cleanup calls stop() on every held trigger and calls fetcher.close()
\* once, after all of those stops have settled; it does not reject unless
\* fetcher.close() rejects.
C18_CleanupStopsThenCloses ==
    op.name = "cleanup" =>
        /\ \A k \in 1..Len(op.log) :
              op.log[k].e = "close" => \A i \in Held0 : StoppedBefore(i, k)
        /\ op.pc \in {"awaitClose", "done"} =>
              /\ LogCount("close") = 1
              /\ fetcherClosed >= 1
              /\ triggers = <<>>
        /\ op.outcome = "rejected" =>
              op.log[Len(op.log)] = Ev("closeSettled", 0, "rejected")
        /\ op.pc = "done" => op.outcome \in {"resolved", "rejected"}

\* cleanup has resolved although the stop of a held trigger rejected
C18_Witness ==
    /\ op.name = "cleanup"
    /\ op.pc = "done"
    /\ op.outcome = "resolved"
    /\ \E k \in 1..Len(op.log) : op.log[k].e = "stopSettled" /\ op.log[k].text = "rejected"

----------------------------------------------------------------------------
(* C19 *)

\* C19: the handler closure never rejects: whichever of its steps fails, it
\* resolves (and it saves a summary only when no step failed).
C19_HandlerNeverRejects ==
    /\ hnd.outcome # "rejected"
    /\ hnd.pc = "done" => hnd.outcome = "resolved"
    /\ hnd.saved => hnd.failedAt = "" /\ hnd.returnedAt = ""

\* the closure has ended after its last step, saving the summary, rejected
C19_Witness ==
    /\ hnd.pc = "done"
    /\ hnd.failedAt = "saveArticle"

----------------------------------------------------------------------------
(* C21 *)

\* C21: in every state getStatus().running is true exactly when the trigger
\* holds a schedule handle, and nextCheck is defined exactly when running is.
C21_StatusFollowsHandle ==
    LET status == getStatus(task, lastCheck) IN
    /\ status.running <=> task
    /\ status.nextCheck # "undefined" <=> status.running

\* a trigger that was started, has polled, and was stopped
C21_Witness ==
    /\ ~task
    /\ initPending = 0
    /\ startsLeft < MaxStarts
    /\ lastCheck > 0
    /\ getStatus(task, lastCheck).nextCheck = "undefined"

----------------------------------------------------------------------------
(* C22 *)

\* C22: getStatus().lastCheck changes only when a poll completes with its
\* feed: it is undefined before the first completed poll, and a poll that is
\* in flight or whose fetch failed does not change it.
C22_LastCheckOnlyOnCompletion ==
    [][getStatus(task, lastCheck)' # getStatus(task, lastCheck) /\ lastCheck' # lastCheck =>
          \E c \in Slots : cyc[c].pc # "done" /\ cyc'[c].pc = "done" /\ cyc'[c].fetched]_vars

----------------------------------------------------------------------------
(* C23 *)

\* C23: stop() on a trigger that holds no schedule handle changes nothing,
\* and a second stop() leaves the state the first one left.
C23_StopIdempotent ==
    /\ [](LET once == stopTask(task, schedules)
              twice == stopTask(once.task, once.schedules)
          IN /\ twice = once
             /\ ~task => once = [task |-> task, schedules |-> schedules])
    /\ [][(stopState # "stopped" /\ stopState' = "stopped" /\ ~task) =>
             UNCHANGED <<task, schedules, timers, seenItems, lastCheck, initPending, cyc>>]_vars

\* stop() has returned on a trigger that was never started
C23_Witness ==
    /\ stopState = "stopped"
    /\ ~task
    /\ schedules = 0
    /\ startsLeft = MaxStarts

----------------------------------------------------------------------------
(* C24 *)

\* C24: a command-line test run with --test-limit L (L a number, 2 when the
\* option is not given) runs the trigger in test mode with cap L, and no
\* check cycle of the run invokes the handler more than L times.
C24_TestRunKeepsRequestedCap ==
    parseInt(options.testLimit) # undefined =>
        /\ config.testMode
        /\ config.maxItemsPerCheck = parseInt(options.testLimit)
        /\ \A c \in Slots : Len(cyc[c].invoked) <= parseInt(options.testLimit)

----------------------------------------------------------------------------
(* C25 *)

----------------------------------------------------------------------------
(* C26 *)

\* the new items of activation c in feed order: the first item of each
\* identifier that the cycle found new
NewInFeedOrder(c) ==
    LET items == FeedList[cyc[c].feedNo]
        ids == ItemIds[cyc[c].feedNo]
        pos == SelectSeq([k \in 1..Len(items) |-> k],
                         LAMBDA k : /\ ids[k] \in cyc[c].newIds
                                    /\ \A j \in 1..(k - 1) : ids[j] # ids[k])
    IN [m \in 1..Len(pos) |-> items[pos[m]]]

\* the items with a link among the first min(N, cap) new items, last first
ExpectedEvents(c) ==
    LET new == NewInFeedOrder(c)
        m == Min(Len(new), cyc[c].limit)
    IN LinkedOf([k \in 1..m |-> new[m + 1 - k]])

\* C26: the events of a check cycle are exactly the items with a link among
\* the first min(N, cap) new items in feed order, dispatched in reverse feed
\* order; a cycle under way has dispatched a prefix of them. On the
\* newest-first snapshot [A, B, C, D], all new, with cap 3: C, then B, then A.
C26_EventsAreSelectedReversed ==
    \A c \in Slots :
        cyc[c].fetched =>
            LET expected == ExpectedEvents(c)
                n == Len(cyc[c].events)
            IN /\ Len(NewInFeedOrder(c)) = cyc[c].found
               /\ n <= Len(expected)
               /\ EventItems(c) = SubSeq(expected, 1, n)
               /\ Finished(c) => n = Len(expected)
               /\ (Finished(c) /\ cyc[c].feedNo = ScenarioNo /\ cyc[c].limit = 3
                      /\ cyc[c].newIds = {1, 2, 3, 4}) =>
                     EventItems(c) = <<ItemC, ItemB, ItemA>>

\* a cycle found four new items under the cap 3 and has dispatched C, B, A
C26_Witness ==
    \E c \in Slots :
        /\ Finished(c)
        /\ cyc[c].found = 4
        /\ cyc[c].limit = 3
        /\ EventItems(c) = <<ItemC, ItemB, ItemA>>

----------------------------------------------------------------------------
(* C27 *)

\* C27: a check cycle never has two handleTriggerEvent calls in flight: it
\* has exactly one while it waits in its dispatch loop and none otherwise, so
\* the dispatch of an item starts only after the previous one has settled.
C27_OneDispatchInFlight ==
    \A c \in Slots :
        /\ cyc[c].inFlight <= 1
        /\ cyc[c].inFlight = IF cyc[c].pc = "dispatch" THEN 1 ELSE 0

\* the second dispatch of a cycle is in flight, after the first has settled
C27_Witness ==
    \E c \in Slots :
        /\ cyc[c].pc = "dispatch"
        /\ Len(cyc[c].events) = 2
        /\ Len(cyc[c].invoked) = 2
        /\ cyc[c].inFlight = 1

----------------------------------------------------------------------------
(* C28 *)

\* C28: a check cycle of a trigger never begins while an earlier check cycle
\* of the same trigger is in flight: at most one checkFeed() activation is
\* between its begin and its end at any time.
C28_CyclesNeverOverlap ==
    Cardinality({c \in Slots : cyc[c].pc \in {"fetch", "dispatch"}}) <= 1

----------------------------------------------------------------------------
(* C29, C30 *)

\* the trigger was started once, the start has settled, and activation c is
\* the first check cycle, and the only one so far
OnlyCheckAfterFirstStart(c) ==
    /\ startsLeft = MaxStarts - 1
    /\ initPending = 0
    /\ lastCheck = 1
    /\ cyc[c].fetched

\* activation c found every identifier of its feed new and selected as many
\* of the new items as the cap allows
TreatsWholeFeedAsNew(c) ==
    /\ cyc[c].newIds = FeedIds[cyc[c].feedNo]
    /\ cyc[c].found = Cardinality(FeedIds[cyc[c].feedNo])
    /\ Len(cyc[c].toProcess) = Min(cyc[c].found, cyc[c].limit)

\* C29: when the initialization fetch of start() fails, start() still
\* resolves, the schedule is armed and running becomes true, the seen-set is
\* left as it was, and the first check that gets a feed afterwards finds every
\* item of the feed new and selects up to the cap of them.
C29_FailedInitStillArms ==
    /\ [][(initPending' < initPending /\ initFetch' = "failed") =>
              /\ task'
              /\ getStatus(task, lastCheck)'.running
              /\ schedules' = schedules + 1
              /\ seenItems' = seenItems]_vars
    /\ [](initFetch = "failed" =>
             /\ (startsLeft = MaxStarts - 1 /\ initPending = 0 /\ lastCheck = 0) =>
                    seenItems = <<>>
             /\ \A c \in Slots : OnlyCheckAfterFirstStart(c) => TreatsWholeFeedAsNew(c))

\* after a first start() whose initialization fetch failed, in normal mode,
\* a check on [A, B, C, D] has ended: all four were new
C29_Witness ==
    \E c \in Slots :
        /\ initFetch = "failed"
        /\ ~config.testMode
        /\ OnlyCheckAfterFirstStart(c)
        /\ Finished(c)
        /\ cyc[c].feedNo = ScenarioNo
        /\ cyc[c].found = 4

\* C30: in test mode start() adds no identifier to the seen-set and arms one
\* extra check besides the schedule (none in normal mode); the first check
\* after start() finds the items already in the feed new and dispatches up to
\* the cap of them.
C30_TestModeStart ==
    /\ [][initPending' < initPending =>
              IF config.testMode
              THEN /\ seenItems' = seenItems
                   /\ timers' = timers + 1
                   /\ schedules' = schedules + 1
              ELSE timers' = timers]_vars
    /\ [](config.testMode =>
             /\ initIds = {}
             /\ \A c \in Slots :
                   OnlyCheckAfterFirstStart(c) =>
                      /\ TreatsWholeFeedAsNew(c)
                      /\ Len(cyc[c].invoked) <= cyc[c].limit
                      /\ Finished(c) =>
                            cyc[c].invoked = IF config.enabled
                                             THEN LinkedOf(cyc[c].toProcess) ELSE <<>>)

\* test mode, initialization fetch resolved with a feed: the extra check has
\* run on [A, B, C, D] and the handler got as many items as the cap
C30_Witness ==
    \E c \in Slots :
        /\ config.testMode
        /\ initFetch = "resolved"
        /\ timers = 0
        /\ OnlyCheckAfterFirstStart(c)
        /\ Finished(c)
        /\ cyc[c].feedNo = ScenarioNo
        /\ Len(cyc[c].invoked) = cyc[c].limit

----------------------------------------------------------------------------
(* C31 *)

\* C31, as stated: outside a check cycle in progress, right after an
\* initialization included, the seen-set holds at most 1000 identifiers.
C31_BoundedOutsideCycles ==
    (\A c \in Slots : cyc[c].pc \notin {"fetch", "dispatch"}) =>
        Len(seenItems) <= CleanupThreshold

\* C31, amended: whenever a check cycle that received its feed completes,
\* the seen-set holds at most 1000 identifiers, and when the cycle ends with
\* more than 1000 the seen-set is compacted to exactly the 500 most recently
\* added ones; an initialization does not compact.
C31_CompactedAtCycleEnd ==
    [][\A c \in Slots :
          (cyc[c].pc # "done" /\ cyc'[c].pc = "done" /\ cyc'[c].fetched) =>
             LET before == IF cyc[c].pc = "fetch"
                           THEN Partition(cyc'[c].feedNo, seenItems).seenItems
                           ELSE seenItems
                 n == Len(before)
             IN /\ Len(seenItems') <= CleanupThreshold
                /\ seenItems' = IF n > CleanupThreshold
                                THEN [k \in 1..KeepLatest |-> before[n - KeepLatest + k]]
                                ELSE before]_vars

\* a cycle has ended with a compaction that left 500 identifiers
C31_Witness ==
    \E c \in Slots :
        /\ Finished(c)
        /\ cyc[c].compacted
        /\ Len(seenItems) = KeepLatest

----------------------------------------------------------------------------
(* C32 *)

\* C32: when a check cycle receives its feed, every identifier of the feed
\* that a compaction has removed from the seen-set and that is not in the
\* seen-set now is found new again, so it can be dispatched a second time,
\* also when the cycle that dispatched it first is the one whose compaction
\* evicted it.
C32_EvictedIsNewAgain ==
    [][\A c \in Slots :
          (cyc[c].pc = "fetch" /\ cyc'[c].fetched) =>
             (FeedIds[cyc'[c].feedNo] \cap evicted) \ Range(seenItems)
                 \subseteq cyc'[c].newIds]_vars

\* cycle d dispatched an identifier and evicted it by its own compaction;
\* cycle c, which got its feed afterwards, has dispatched it again
C32_Witness ==
    \E c, d \in Slots :
        /\ c # d
        /\ Finished(d) /\ cyc[d].compacted
        /\ \E id \in EventIds(d) \cap cyc[d].missingAtEnd :
              /\ id \in EventIds(c)
              /\ id \in dispatchLog.again

----------------------------------------------------------------------------
(* C33 *)

\* C33: an identifier is passed to the dispatch step a second time only
\* after a compaction has evicted it: without an eviction it is dispatched at
\* most once, whether the handler resolved or rejected and whether or not
\* check cycles overlap.
C33_AtMostOnceUnlessEvicted ==
    /\ dispatchLog.again \subseteq evicted
    /\ \A c, d \in Slots :
          c # d => (EventIds(c) \cap EventIds(d)) \subseteq evicted

\* two overlapping cycles got the same feed; the handler rejected an item in
\* one of them, and the other has ended without dispatching any of its items
C33_Witness ==
    \E c, d \in Slots :
        /\ c # d
        /\ Finished(c) /\ Finished(d)
        /\ cyc[c].feedNo = cyc[d].feedNo
        /\ cyc[d].firstReject > 0
        /\ EventIds(c) \cap EventIds(d) = {}
        /\ dispatchLog.again = {}

----------------------------------------------------------------------------
(* C34 *)

\* C34: a check cycle logs the safety warning exactly when the number N of
\* new items exceeds the effective cap C; the warning reports N found, C to
\* be processed and N - C remaining, and C items are then selected; no
\* warning is logged when N <= C.
C34_WarningIffOverCap ==
    \A c \in Slots :
        cyc[c].fetched =>
            LET N == cyc[c].found
                C == maxItemsLimit(config)
            IN /\ cyc[c].limit = C
               /\ (cyc[c].warned # <<>>) <=> (N > C)
               /\ N > C => /\ cyc[c].warned[1] = N
                           /\ cyc[c].warned[2] = C
                           /\ cyc[c].warned[3] = N - C
                           /\ Len(cyc[c].toProcess) = C

\* one cycle found four new items under the cap 1 and warned "4, 1, 3"
C34_Witness ==
    \E c \in Slots :
        /\ Finished(c)
        /\ cyc[c].warned = <<4, 1, 3>>

----------------------------------------------------------------------------
(* C35, C36 *)

\* obsidian.saveArticle was invoked by the activation of the closure
SaveInvoked == hnd.pc = "saveArticle" \/ hnd.saved \/ hnd.failedAt = "saveArticle"

\* C35: summarization is invoked only after a content fetch that returned at
\* least 100 characters, and persistence only after summarization succeeded;
\* an event whose content is absent or shorter is dropped with neither, and
\* the closure resolves.
C35_SummarizeNeedsContent ==
    /\ hnd.summarized => hnd.content # undefined /\ hnd.content >= MinContent
    /\ SaveInvoked => hnd.summarized /\ hnd.failedAt # "summarize"
    /\ (hnd.pc = "done" /\ hnd.failedAt # "fetchArticle"
           /\ (hnd.content = undefined \/ hnd.content < MinContent)) =>
          /\ hnd.returnedAt = "fetchArticle"
          /\ ~hnd.summarized
          /\ ~SaveInvoked
          /\ hnd.outcome = "resolved"

\* an event whose article has 99 characters of content was dropped
C35_Witness ==
    /\ hnd.pc = "done"
    /\ hnd.content = MinContent - 1
    /\ hnd.returnedAt = "fetchArticle"
    /\ hnd.outcome = "resolved"

\* C36: the closure summarizes with the named profile of the trigger when it
\* exists and with the default profile when only that exists; when both are
\* missing it invokes neither summarization nor persistence; in all three
\* cases it resolves.
C36_ProfileFallback ==
    /\ hnd.profiles \in {"both", "named"} => hnd.prompt = "named" /\ hnd.summarized
    /\ hnd.profiles = "default" => hnd.prompt = "default" /\ hnd.summarized
    /\ hnd.profiles = "none" =>
          /\ hnd.prompt = ""
          /\ ~hnd.summarized
          /\ ~SaveInvoked
          /\ hnd.pc = "done"
          /\ hnd.returnedAt = "loadConfig"
    /\ hnd.profiles # "" => hnd.outcome # "rejected"
    /\ (hnd.profiles # "" /\ hnd.pc = "done") => hnd.outcome = "resolved"

\* the named profile was missing: the summary made with the default profile
\* has been saved
C36_Witness ==
    /\ hnd.pc = "done"
    /\ hnd.profiles = "default"
    /\ hnd.prompt = "default"
    /\ hnd.saved

----------------------------------------------------------------------------
(* C37 *)

\* C37: stop() discards the seen-set: when the initialization of a start()
\* that follows a stop() settles (no other start() pending, no check cycle in
\* progress), the seen-set holds only what this initialization seeds: nothing
\* in test mode or when its fetch failed, the identifiers of its feed
\* otherwise.
C37_StopDiscardsSeenSet ==
    [][(/\ stopState = "restarted"
        /\ initPending = 1 /\ initPending' = 0
        /\ \A c \in Slots : cyc[c].pc \notin {"fetch", "dispatch"}) =>
          IF config.testMode \/ initFetch' = "failed"
          THEN seenItems' = <<>>
          ELSE \E f \in 1..Len(FeedList) : seenItems' = MarkSeen(f, <<>>)]_vars

----------------------------------------------------------------------------
(* C38 *)

\* C38: once stop() has returned and no start() has been called since, the
\* trigger holds no schedule handle (and getStatus() does not report it
\* running), also when stop() was called while a start() was awaiting its
\* initialization fetch.
C38_NoHandleAfterStop ==
    stopState = "stopped" => ~task /\ ~getStatus(task, lastCheck).running

----------------------------------------------------------------------------
(* C39 *)

\* C39: after stopAllTriggers() or cleanup() has returned the manager holds
\* no trigger, and it holds none until loadTriggers is called: listTriggers()
\* and getTriggerStatus() are empty; called on a manager that holds nothing,
\* startAllTriggers() starts nothing and startTrigger(id) / stopTrigger(id)
\* reject as not found.
C39_NothingHeldAfterStopAll ==
    /\ []((op.name \in {"stopAllTriggers", "cleanup"} /\ op.pc = "done") =>
             /\ triggers = <<>>
             /\ listTriggers(triggers) = <<>>
             /\ getTriggerStatusKeys(triggers) = {})
    /\ [][(triggers = <<>> /\ triggers' # <<>>) => op'.name = "loadTriggers"]_vars
    /\ [][(op.name \in {"stopAllTriggers", "cleanup"} /\ op.pc = "done" /\ op' # op) =>
             op'.triggers0 = <<>>]_vars
    /\ []((op.triggers0 = <<>> /\ op.name = "startAllTriggers") =>
             op.pc = "done" /\ op.outcome = "resolved" /\ op.log = <<>>)
    /\ []((op.triggers0 = <<>> /\ op.name \in {"startTrigger", "stopTrigger"}) =>
             /\ op.pc = "done" /\ op.outcome = "rejected" /\ op.log = <<>>
             /\ op.error = <<"Trigger", op.id, "not found">>)

\* triggers were loaded and all stopped, and a startTrigger has then been
\* rejected as not found
C39_Witness ==
    /\ made > 0
    /\ op.name = "startTrigger"
    /\ op.triggers0 = <<>>
    /\ op.outcome = "rejected"
    /\ triggers = <<>>

----------------------------------------------------------------------------
(* C40 *)

\* C40: once cleanup() has called fetcher.close(), no check cycle of a
\* trigger invokes the handler (whose first call is fetcher.fetchArticle):
\* no cycle begun before cleanup still dispatches after the close.
C40_NoDispatchAfterClose ==
    [][fetcherClosed > 0 =>
          \A c \in Slots : Len(cyc'[c].invoked) <= Len(cyc[c].invoked)]_vars

====
